---- MODULE Spec2Model ----
(***************************************************************************)
(* Model of streamlit_app.py: the "Template -> Raw Data Normalizer".       *)
(* One run of the Streamlit script: upload, open the workbook, choose a    *)
(* sheet, read it with the two header rows, then the normalisation stages  *)
(* (flatten, positional rename, string cleanup, empty-row drop, date       *)
(* parse, Store Name truncation, numeric coercion, positive Gross Sales    *)
(* filter, final empty-row drop) and the preview / download outputs.       *)
(*                                                                         *)
(* Text is a sequence of one-character strings, so that trimming, comma    *)
(* stripping, slicing, number formatting and number parsing are computed.  *)
(* A cell is a record tagged by k:                                         *)
(*   "str"   python str            [k, s]                                  *)
(*   "NA"    pd.NA                                                         *)
(*   "nan"   float NaN (an empty Excel cell, or a failed coercion)         *)
(*   "int"   integer               [k, v]                                  *)
(*   "float" float m / 10^e        [k, m, e], m % 10 # 0 unless e = 0      *)
(*   "date"  Timestamp             [k, y, mo, d]                           *)
(*   "NaT"   missing Timestamp                                             *)
(* A table is [columns, dtypes, rows]; rows are sequences of cells. The    *)
(* pandas semantics are those of pandas 1.x / 2.x with object columns.     *)
(***************************************************************************)
EXTENDS Integers, Sequences, FiniteSets

\* ------------------------------------------------------------------------
\* Config
\* ------------------------------------------------------------------------
FINAL_COLS ==
    << "Row No.", "Store Code", "Store Name", "Date", "Gross Sales",
       "Net Sales", "Discounted", "Item Void", "Void Value", "Item Refund",
       "Refund Value", "Terminal", "Unnamed", "Quantity", "Transaction",
       "Average Transaction Value" >>

NUMERIC_COLS ==
    { "Gross Sales", "Net Sales", "Discounted", "Item Void", "Void Value",
      "Item Refund", "Refund Value", "Quantity", "Transaction",
      "Average Transaction Value" }

Range(f) == { f[i] : i \in DOMAIN f }

NON_NUMERIC_COLS == Range(FINAL_COLS) \ NUMERIC_COLS

HEADER_ROWS == << 3, 4 >>

\* ------------------------------------------------------------------------
\* Text primitives (str.strip, str.replace(",", ""), str[-4:], str(x))
\* ------------------------------------------------------------------------
IsSpace(c) == c \in { " ", "\t", "\n" }

RECURSIVE LStrip(_)
LStrip(s) ==
    IF s = << >> THEN s
    ELSE IF IsSpace(Head(s)) THEN LStrip(Tail(s)) ELSE s

RECURSIVE RStrip(_)
RStrip(s) ==
    IF s = << >> THEN s
    ELSE IF IsSpace(s[Len(s)]) THEN RStrip(SubSeq(s, 1, Len(s) - 1)) ELSE s

Strip(s) == RStrip(LStrip(s))

NotComma(c) == c # ","

ReplaceComma(s) == SelectSeq(s, NotComma)

StrLast4(s) == IF Len(s) <= 4 THEN s ELSE SubSeq(s, Len(s) - 3, Len(s))

DigitChars == << "0", "1", "2", "3", "4", "5", "6", "7", "8", "9" >>

IsDigit(c) == \E i \in 1..10 : DigitChars[i] = c

DigitVal(c) == (CHOOSE i \in 1..10 : DigitChars[i] = c) - 1

AllDigits(s) == \A i \in 1..Len(s) : IsDigit(s[i])

RECURSIVE DigitsToNat(_)
DigitsToNat(s) ==
    IF s = << >> THEN 0
    ELSE 10 * DigitsToNat(SubSeq(s, 1, Len(s) - 1)) + DigitVal(s[Len(s)])

RECURSIVE NatToDigits(_)
NatToDigits(n) ==
    IF n < 10 THEN << DigitChars[n + 1] >>
    ELSE NatToDigits(n \div 10) \o << DigitChars[(n % 10) + 1] >>

RECURSIVE Pow10(_)
Pow10(e) == IF e = 0 THEN 1 ELSE 10 * Pow10(e - 1)

RECURSIVE ZeroPad(_, _)
ZeroPad(s, w) == IF Len(s) >= w THEN s ELSE ZeroPad(<< "0" >> \o s, w)

Abs(n) == IF n < 0 THEN -n ELSE n

SignChars(n) == IF n < 0 THEN << "-" >> ELSE << >>

\* ------------------------------------------------------------------------
\* Cells
\* ------------------------------------------------------------------------
Str(s) == [k |-> "str", s |-> s]
NA == [k |-> "NA"]
NaN == [k |-> "nan"]
NaT == [k |-> "NaT"]
IntCell(v) == [k |-> "int", v |-> v]

RECURSIVE MkFloat(_, _)
MkFloat(m, e) ==
    IF e > 0 /\ m % 10 = 0 THEN MkFloat(m \div 10, e - 1)
    ELSE [k |-> "float", m |-> m, e |-> e]

\* Series.isna() / notna(), element-wise
IsNA(c) == c.k \in { "NA", "nan", "NaT" }

\* repr of a float with a short decimal expansion: "1200.5", "5.0", "-0.25"
FloatToStr(m, e) ==
    SignChars(m) \o NatToDigits(Abs(m) \div Pow10(e)) \o << "." >>
        \o (IF e = 0 THEN << "0" >>
            ELSE ZeroPad(NatToDigits(Abs(m) % Pow10(e)), e))

\* Series.astype(str), element-wise: str(x)
AsStr(c) ==
    CASE c.k = "str"   -> c.s
      [] c.k = "NA"    -> << "<", "N", "A", ">" >>
      [] c.k = "nan"   -> << "n", "a", "n" >>
      [] c.k = "NaT"   -> << "N", "a", "T" >>
      [] c.k = "int"   -> SignChars(c.v) \o NatToDigits(Abs(c.v))
      [] c.k = "float" -> FloatToStr(c.m, c.e)

FirstDot(s) == CHOOSE i \in 1..Len(s) : s[i] = "." /\ \A j \in 1..(i - 1) : s[j] # "."

\* pd.to_numeric(..., errors="coerce") on one str: optional blanks, optional
\* sign, decimal digits with an optional point; anything else is NaN.
\* (Exponent forms and "inf" are outside the texts the model draws.)
ParseUnsigned(u, neg) ==
    IF \E i \in 1..Len(u) : u[i] = "."
    THEN LET d  == FirstDot(u)
             ip == SubSeq(u, 1, d - 1)
             fp == SubSeq(u, d + 1, Len(u))
         IN  IF AllDigits(ip) /\ AllDigits(fp) /\ Len(ip) + Len(fp) >= 1
             THEN LET mag == DigitsToNat(ip \o fp)
                  IN  MkFloat(IF neg THEN -mag ELSE mag, Len(fp))
             ELSE NaN
    ELSE IF u # << >> /\ AllDigits(u)
         THEN IntCell(IF neg THEN -DigitsToNat(u) ELSE DigitsToNat(u))
         ELSE NaN

ToNumericStr(s) ==
    LET t == Strip(s)
    IN  IF t = << >> THEN NaN
        ELSE IF Head(t) = "-" THEN ParseUnsigned(Tail(t), TRUE)
        ELSE IF Head(t) = "+" THEN ParseUnsigned(Tail(t), FALSE)
        ELSE ParseUnsigned(t, FALSE)

\* int64 value widened to float64 when the column holds a float or a NaN
AsFloat(c) == IF c.k = "int" THEN MkFloat(c.v, 0) ELSE c

\* pd.to_numeric on a column of str: int64 if every value is an integer,
\* float64 otherwise. Returns [dtype, vals].
ToNumeric(strs) ==
    LET parsed == [i \in 1..Len(strs) |-> ToNumericStr(strs[i])]
    IN  IF \A i \in 1..Len(strs) : parsed[i].k = "int"
        THEN [dtype |-> "int64", vals |-> parsed]
        ELSE [dtype |-> "float64",
              vals |-> [i \in 1..Len(strs) |-> AsFloat(parsed[i])]]

\* x > 0, element-wise on a numeric column (NaN > 0 is False)
GtZero(c) ==
    CASE c.k = "int"   -> c.v > 0
      [] c.k = "float" -> c.m > 0
      [] OTHER         -> FALSE

\* pd.to_datetime(..., errors="coerce", dayfirst=True) on one str of the
\* form DD/MM/YYYY: the first field is the day. Any other text is NaT.
\* (Texts whose second field exceeds 12 are not drawn by the model.)
IsLeap(y) == (y % 4 = 0 /\ y % 100 # 0) \/ y % 400 = 0

DaysInMonth(y, mo) ==
    IF mo = 2 THEN (IF IsLeap(y) THEN 29 ELSE 28)
    ELSE IF mo \in { 4, 6, 9, 11 } THEN 30 ELSE 31

ToDatetimeStr(s) ==
    IF Len(s) = 10 /\ s[3] = "/" /\ s[6] = "/"
       /\ AllDigits(SubSeq(s, 1, 2)) /\ AllDigits(SubSeq(s, 4, 5))
       /\ AllDigits(SubSeq(s, 7, 10))
    THEN LET d  == DigitsToNat(SubSeq(s, 1, 2))
             mo == DigitsToNat(SubSeq(s, 4, 5))
             y  == DigitsToNat(SubSeq(s, 7, 10))
         IN  IF mo \in 1..12 /\ d >= 1 /\ d <= DaysInMonth(y, mo)
             THEN [k |-> "date", y |-> y, mo |-> mo, d |-> d]
             ELSE NaT
    ELSE NaT

ToDatetime(c) == IF c.k = "str" THEN ToDatetimeStr(c.s) ELSE NaT

\* ------------------------------------------------------------------------
\* Tables
\* ------------------------------------------------------------------------
Unset == [unset |-> TRUE]

NCols(df) == Len(df.columns)

NRows(df) == Len(df.rows)

Col(df, i) == [r \in 1..NRows(df) |-> df.rows[r][i]]

ColIdx(df, name) == CHOOSE i \in 1..NCols(df) : df.columns[i] = name

HasCol(df, name) == \E i \in 1..NCols(df) : df.columns[i] = name

\* df[name] = series (values and dtype)
SetCol(df, i, vals, dtype) ==
    [ columns |-> df.columns,
      dtypes  |-> [df.dtypes EXCEPT ![i] = dtype],
      rows    |-> [r \in 1..NRows(df) |-> [df.rows[r] EXCEPT ![i] = vals[r]]] ]

\* ------------------------------------------------------------------------
\* Helpers of streamlit_app.py
\* ------------------------------------------------------------------------
NoneLabel == [k |-> "None"]

BarSep == << " ", "|", " " >>

RECURSIVE Join(_, _)
Join(parts, sep) ==
    IF parts = << >> THEN << >>
    ELSE IF Len(parts) = 1 THEN parts[1]
    ELSE parts[1] \o sep \o Join(Tail(parts), sep)

KeepPart(x) == x.k # "None" /\ Strip(AsStr(x)) # << >>

FlattenLabel(c) ==
    IF c.tuple
    THEN LET kept  == SelectSeq(c.parts, KeepPart)
             parts == [i \in 1..Len(kept) |-> Strip(AsStr(kept[i]))]
         IN  IF parts # << >> THEN Join(parts, BarSep) ELSE << >>
    ELSE IF c.val.k = "None" THEN << >> ELSE Strip(AsStr(c.val))

_flatten_columns(cols) == [i \in 1..Len(cols) |-> FlattenLabel(cols[i])]

Min(a, b) == IF a < b THEN a ELSE b

\* df.iloc[:, :n].copy()
IlocFirst(df, n) ==
    LET w == Min(n, NCols(df))
    IN  [ columns |-> SubSeq(df.columns, 1, w),
          dtypes  |-> SubSeq(df.dtypes, 1, w),
          rows    |-> [r \in 1..NRows(df) |-> SubSeq(df.rows[r], 1, w)] ]

LengthMismatch == [exc |-> "ValueError", msg |-> "Length mismatch"]

IsExc(r) == "exc" \in DOMAIN r

\* Variant: a table with fewer columns is padded with missing columns.
RenameByPositionPad(df, final_cols) ==
    LET n  == Len(final_cols)
        cp == IlocFirst(df, n)
        w  == NCols(cp)
    IN  [ columns |-> final_cols,
          dtypes  |-> [i \in 1..n |-> IF i <= w THEN cp.dtypes[i] ELSE "object"],
          rows    |-> [r \in 1..NRows(cp) |->
                         [i \in 1..n |-> IF i <= w THEN cp.rows[r][i] ELSE NaN]] ]

\* Variant: the slice keeps the last n columns (df.iloc[:, -n:]).
RenameByPositionLast(df, final_cols) ==
    LET n   == Len(final_cols)
        off == IF NCols(df) > n THEN NCols(df) - n ELSE 0
    IN  IF NCols(df) - off # n THEN LengthMismatch
        ELSE [ columns |-> final_cols,
               dtypes  |-> SubSeq(df.dtypes, off + 1, off + n),
               rows    |-> [r \in 1..NRows(df) |->
                              SubSeq(df.rows[r], off + 1, off + n)] ]

\* Assigning df.columns a list of another length raises ValueError.
_rename_by_position(df, final_cols) ==
    LET n  == Len(final_cols)
        cp == IlocFirst(df, n)
    IN  IF NCols(cp) # n THEN LengthMismatch
        ELSE [cp EXCEPT !.columns = final_cols]

BlankTexts == { << >>, << "n", "a", "n" >>, << "N", "o", "n", "e" >> }

\* .astype(str).str.strip().replace({"": NA, "nan": NA, "None": NA})
CleanCell(c) ==
    LET t == Strip(AsStr(c))
    IN  IF t \in BlankTexts THEN NA ELSE Str(t)

CleanStrings(df) ==
    [ columns |-> df.columns,
      dtypes  |-> df.dtypes,
      rows    |-> [r \in 1..NRows(df) |->
                     [i \in 1..NCols(df) |->
                        IF df.dtypes[i] = "object" THEN CleanCell(df.rows[r][i])
                        ELSE df.rows[r][i]]] ]

RowAllNA(row) == \A i \in 1..Len(row) : IsNA(row[i])

RowNotAllNA(row) == ~RowAllNA(row)

\* Variant: the result of dropna is not kept.
DropEmptyRowsNoop(df) == df

RowNoNA(row) == \A i \in 1..Len(row) : ~IsNA(row[i])

\* Variant: dropna with its default how="any".
DropEmptyRowsAny(df) == [df EXCEPT !.rows = SelectSeq(df.rows, RowNoNA)]

\* df.dropna(how="all").reset_index(drop=True)
DropEmptyRows(df) == [df EXCEPT !.rows = SelectSeq(df.rows, RowNotAllNA)]

_parse_date(series) == [r \in 1..Len(series) |-> ToDatetime(series[r])]

_store_name_last4(series) ==
    [r \in 1..Len(series) |-> Str(StrLast4(AsStr(series[r])))]

NotDot(c) == c # "."

\* Variant: the separator removed is "." instead of ",".
CoerceSeriesStripDots(series) ==
    ToNumeric([r \in 1..Len(series) |-> SelectSeq(AsStr(series[r]), NotDot)])

\* pd.to_numeric(s.astype(str).str.replace(",", "", regex=False), errors="coerce")
CoerceSeries(series) ==
    ToNumeric([r \in 1..Len(series) |-> ReplaceComma(AsStr(series[r]))])

CoerceColumn(df, i) ==
    LET res == CoerceSeries(Col(df, i))
    IN  SetCol(df, i, res.vals, res.dtype)

RECURSIVE CoerceLoop(_, _)
CoerceLoop(df, cols) ==
    IF cols = << >> THEN df
    ELSE LET c == Head(cols)
         IN  CoerceLoop(IF HasCol(df, c) THEN CoerceColumn(df, ColIdx(df, c)) ELSE df,
                        Tail(cols))

\* Variant: to_numeric without the comma replacement.
CoerceKeepCommas(df, cols) ==
    [ columns |-> df.columns,
      dtypes  |-> [i \in 1..NCols(df) |->
                     IF df.columns[i] \in Range(cols)
                     THEN ToNumeric([r \in 1..NRows(df) |-> AsStr(df.rows[r][i])]).dtype
                     ELSE df.dtypes[i]],
      rows    |-> [r \in 1..NRows(df) |->
                     [i \in 1..NCols(df) |->
                        IF df.columns[i] \in Range(cols)
                        THEN ToNumeric([q \in 1..NRows(df) |-> AsStr(df.rows[q][i])]).vals[r]
                        ELSE df.rows[r][i]]] ]

\* Assigns into the table it is given and returns that same table.
_coerce_numeric(df, cols) == CoerceLoop(df, cols)

InNumericCols(c) == c \in NUMERIC_COLS

NumericColList == SelectSeq(FINAL_COLS, InNumericCols)

\* The table passed to the filter, after its "Gross Sales" assignment.
FilterEnforceNumeric(df) == CoerceColumn(df, ColIdx(df, "Gross Sales"))

GeZero(c) ==
    CASE c.k = "int"   -> c.v >= 0
      [] c.k = "float" -> c.m >= 0
      [] OTHER         -> FALSE

\* Variant: the comparison is >= 0.
FilterGrossNonNegative(df) ==
    LET enforced == FilterEnforceNumeric(df)
        g        == ColIdx(df, "Gross Sales")
        Keep(row) == ~IsNA(row[g]) /\ GeZero(row[g])
    IN  [enforced EXCEPT !.rows = SelectSeq(enforced.rows, Keep)]

\* df[df["Gross Sales"].notna() & (df["Gross Sales"] > 0)]
_filter_gross_sales_numeric_positive(df) ==
    LET enforced == FilterEnforceNumeric(df)
        g        == ColIdx(df, "Gross Sales")
        Keep(row) == ~IsNA(row[g]) /\ GtZero(row[g])
    IN  [enforced EXCEPT !.rows = SelectSeq(enforced.rows, Keep)]

\* Lines 126-150 as one function of the table read from the sheet: the
\* normalised table, or the exception that ends the script.
Normalize(raw) ==
    LET flat    == [raw EXCEPT !.columns = _flatten_columns(raw.columns)]
        renamed == _rename_by_position(flat, FINAL_COLS)
    IN  IF IsExc(renamed) THEN renamed
        ELSE LET cleaned == DropEmptyRows(CleanStrings(renamed))
                 dI      == ColIdx(cleaned, "Date")
                 dated   == SetCol(cleaned, dI, _parse_date(Col(cleaned, dI)),
                                   "datetime64")
                 sI      == ColIdx(dated, "Store Name")
                 named   == SetCol(dated, sI, _store_name_last4(Col(dated, sI)),
                                   "object")
                 coerced == _coerce_numeric(named, NumericColList)
             IN  DropEmptyRows(_filter_gross_sales_numeric_positive(coerced))

\* ------------------------------------------------------------------------
\* Inputs: the cells, rows and sheets the model draws
\* ------------------------------------------------------------------------
MaxRows == 2

MaxPairRows == 1

PreviewRows == 200

TxtShop == Str(<< "S", "H", "O", "P", "-", "0", "0", "1" >>)
TxtStore77 == Str(<< "S", "T", "O", "R", "E", "7", "7" >>)
TxtAB == Str(<< "A", "B" >>)
TxtPadX9 == Str(<< " ", "X", "9", " " >>)
TxtNone == Str(<< "N", "o", "n", "e" >>)
TxtNan == Str(<< "n", "a", "n" >>)
TxtEmpty == Str(<< >>)
TxtSpaces == Str(<< " ", " " >>)
TxtAbc == Str(<< "a", "b", "c" >>)
TxtX == Str(<< "x" >>)
TxtT1 == Str(<< "T", "1" >>)
TxtDate == Str(<< "0", "5", "/", "0", "3", "/", "2", "0", "2", "4" >>)
TxtBadDate == Str(<< "3", "1", "/", "0", "2", "/", "2", "0", "2", "4" >>)
Txt1200 == Str(<< "1", ",", "2", "0", "0", ".", "5", "0" >>)
Txt0 == Str(<< "0" >>)
TxtMinus5 == Str(<< "-", "5" >>)
TxtPad7 == Str(<< " ", "7", " " >>)
Txt7 == Str(<< "7" >>)
Txt2p5 == Str(<< "2", ".", "5" >>)
Txt12p5 == Str(<< "1", "2", ".", "5" >>)
Txt3p0 == Str(<< "3", ".", "0" >>)
Txt1c5 == Str(<< "1", ",", "5" >>)

\* One sheet row: Row No., Store Code, Store Name, Date, Gross Sales, then
\* the same cell in the nine other numeric fields; Terminal and Unnamed.
MkRow(no, sn, dt, gs, oth) ==
    << IntCell(no), Str(<< "S" >> \o NatToDigits(no)), sn, dt, gs,
       oth, oth, oth, oth, oth, oth, TxtT1, NaN, oth, oth, oth >>

UniformRow(c) == [i \in 1..16 |-> c]

MixedBlankRow ==
    << NaN, TxtSpaces, TxtNone, TxtNan, TxtEmpty, NaN, NaN, TxtSpaces,
       NaN, NaN, TxtNone, NaN, NaN, NaN, TxtNan, NaN >>

RowSamples ==
    << MkRow(1, TxtShop, TxtDate, Txt1200, Txt7),
       MkRow(2, TxtShop, TxtDate, Txt0, Txt7),
       MkRow(3, TxtAB, TxtAbc, TxtAbc, TxtX),
       MkRow(4, NaN, TxtBadDate, TxtPad7, TxtX),
       MkRow(5, TxtSpaces, NaN, IntCell(12), NaN),
       MkRow(6, TxtShop, TxtDate, TxtMinus5, Txt1c5),
       MkRow(7, TxtNone, TxtDate, Txt2p5, Txt0),
       MkRow(8, TxtPadX9, TxtDate, NaN, Txt7),
       MkRow(9, IntCell(12345), TxtAbc, MkFloat(1254, 1), Txt3p0),
       MkRow(10, TxtStore77, TxtDate, Txt12p5, TxtAbc),
       UniformRow(NaN),
       UniformRow(TxtSpaces),
       MixedBlankRow >>

PairRowSamples == << RowSamples[1], RowSamples[2], RowSamples[4], RowSamples[11] >>

HeaderSamples ==
    { [tuple |-> TRUE,
       parts |-> << Str(<< "S", "t", "o", "r", "e", " ", "|", " ", "C", "o", "d", "e" >>),
                    Str(<< " ", "I", "n", "f", "o" >>) >>],
      [tuple |-> TRUE, parts |-> << NoneLabel, TxtSpaces >>] }

ExtraCells == { TxtX, Txt7 }

\* read_excel(..., dtype=object): every column has dtype object
RawTable(label, rows, w) ==
    [ columns |-> [i \in 1..w |-> label],
      dtypes  |-> [i \in 1..w |-> "object"],
      rows    |-> rows ]

RowSeqs(samples, n) == UNION { [1..m -> Range(samples)] : m \in 0..n }

Widen(rows, c) == [r \in 1..Len(rows) |-> Append(rows[r], c)]

Narrow(rows, w) == [r \in 1..Len(rows) |-> SubSeq(rows[r], 1, w)]

FullTables ==
    { RawTable(h, rows, 16) : h \in HeaderSamples, rows \in RowSeqs(RowSamples, MaxRows) }

WideTables ==
    { RawTable(h, Widen(rows, c), 17) :
        h \in HeaderSamples, rows \in RowSeqs(RowSamples, 1), c \in ExtraCells }

ShortTables ==
    { RawTable(h, Narrow(rows, w), w) :
        h \in HeaderSamples, rows \in RowSeqs(RowSamples, 1), w \in { 10, 15 } }

RawTables == FullTables \cup WideTables \cup ShortTables

PairTables ==
    { RawTable(h, rows, 16) :
        h \in HeaderSamples, rows \in RowSeqs(PairRowSamples, MaxPairRows) }
    \cup
    { RawTable(h, Widen(rows, c), 17) :
        h \in HeaderSamples, rows \in RowSeqs(PairRowSamples, MaxPairRows),
        c \in ExtraCells }

SheetNames == << "Sheet1", "Data" >>

OpenErrors == { "File is not a zip file", "Unsupported format" }

ReadErrors == { "Passed header=[3,4] but only 2 lines in file" }

\* ------------------------------------------------------------------------
\* State of one run of the script
\* ------------------------------------------------------------------------
VARIABLES
    pc,        \* next statement of the script, or "done" / "stopped" / "crashed"
    uploaded,  \* what st.file_uploader returned: "file" or "None"
    sheets,    \* xls.sheet_names
    sheet,     \* the sheet chosen in the selectbox
    df_raw,    \* the table read from the sheet
    df,        \* the working table
    ui,        \* elements written to the page, in order
    exc,       \* the uncaught exception that ended the script, if any
    lastCall,  \* last helper call: its argument before and after the call
    pairPc, srcA, srcB, outA, outB   \* two independent runs of lines 126-150

vars == << pc, uploaded, sheets, sheet, df_raw, df, ui, exc, lastCall,
           pairPc, srcA, srcB, outA, outB >>

pairVars == << pairPc, srcA, srcB, outA, outB >>

runVars == << pc, uploaded, sheets, sheet, df_raw, df, ui, exc, lastCall >>

Call(fn, before, after) == [fn |-> fn, before |-> before, after |-> after]

Init ==
    /\ pc = "upload"
    /\ uploaded = "pending"
    /\ sheets = Unset
    /\ sheet = Unset
    /\ df_raw = Unset
    /\ df = Unset
    /\ ui = << >>
    /\ exc = Unset
    /\ lastCall = Unset
    /\ pairPc = "off"
    /\ srcA = Unset
    /\ srcB = Unset
    /\ outA = Unset
    /\ outB = Unset

\* uploaded = st.file_uploader(...); if not uploaded: st.info; st.stop()
Upload ==
    /\ pc = "upload"
    /\ \E u \in { "file", "None" } :
         /\ uploaded' = u
         /\ IF u # "None"
            THEN /\ pc' = "open"
                 /\ ui' = ui
            ELSE /\ pc' = "stopped"
                 /\ ui' = Append(ui, [kind |-> "info"])
    /\ UNCHANGED << sheets, sheet, df_raw, df, exc, lastCall >>
    /\ UNCHANGED pairVars

\* xls = pd.ExcelFile(uploaded); sheets = xls.sheet_names
OpenWorkbook ==
    /\ pc = "open"
    /\ \/ /\ sheets' = SheetNames
          /\ pc' = "select"
          /\ ui' = ui
       \/ \E e \in OpenErrors :
            /\ ui' = Append(ui, [kind |-> "error",
                                 text |-> "Failed to open Excel", cause |-> e])
            /\ pc' = "stopped"
            /\ sheets' = sheets
    /\ UNCHANGED << uploaded, sheet, df_raw, df, exc, lastCall >>
    /\ UNCHANGED pairVars

\* sheet = st.selectbox("Select sheet", sheets, index=0)
SelectSheet ==
    /\ pc = "select"
    /\ \E i \in 1..Len(sheets) : sheet' = sheets[i]
    /\ pc' = "read"
    /\ UNCHANGED << uploaded, sheets, df_raw, df, ui, exc, lastCall >>
    /\ UNCHANGED pairVars

\* Variant: the except branch reports the error but does not stop; the
\* script goes on with an empty table.
ReadSheetNoStop ==
    /\ pc = "read"
    /\ \/ \E t \in RawTables :
            /\ df_raw' = t
            /\ pc' = "flatten"
            /\ ui' = ui
       \/ \E e \in ReadErrors :
            /\ ui' = Append(ui, [kind |-> "error",
                                 text |-> "Failed to read sheet with header rows",
                                 rows |-> HEADER_ROWS, cause |-> e])
            /\ pc' = "flatten"
            /\ df_raw' = RawTable([tuple |-> FALSE, val |-> NoneLabel], << >>, 16)
    /\ UNCHANGED << uploaded, sheets, sheet, df, exc, lastCall >>
    /\ UNCHANGED pairVars

\* df_raw = pd.read_excel(xls, sheet_name=sheet, header=HEADER_ROWS, dtype=object)
ReadSheet ==
    /\ pc = "read"
    /\ \/ \E t \in RawTables :
            /\ df_raw' = t
            /\ pc' = "flatten"
            /\ ui' = ui
       \/ \E e \in ReadErrors :
            /\ ui' = Append(ui, [kind |-> "error",
                                 text |-> "Failed to read sheet with header rows",
                                 rows |-> HEADER_ROWS, cause |-> e])
            /\ pc' = "stopped"
            /\ df_raw' = df_raw
    /\ UNCHANGED << uploaded, sheets, sheet, df, exc, lastCall >>
    /\ UNCHANGED pairVars

\* df_raw.columns = _flatten_columns(df_raw.columns)
Flatten ==
    /\ pc = "flatten"
    /\ df_raw' = [df_raw EXCEPT !.columns = _flatten_columns(df_raw.columns)]
    /\ lastCall' = Call("_flatten_columns", df_raw.columns, df_raw.columns)
    /\ pc' = "rename"
    /\ UNCHANGED << uploaded, sheets, sheet, df, ui, exc >>
    /\ UNCHANGED pairVars

\* df = _rename_by_position(df_raw, FINAL_COLS)
Rename ==
    /\ pc = "rename"
    /\ LET r == _rename_by_position(df_raw, FINAL_COLS)
       IN  IF IsExc(r)
           THEN /\ exc' = r
                /\ pc' = "crashed"
                /\ df' = df
           ELSE /\ df' = r
                /\ pc' = "clean"
                /\ exc' = exc
    /\ lastCall' = Call("_rename_by_position", df_raw, df_raw)
    /\ UNCHANGED << uploaded, sheets, sheet, df_raw, ui >>
    /\ UNCHANGED pairVars

\* for c in df.columns: if df[c].dtype == object: df[c] = ...strip().replace(...)
Clean ==
    /\ pc = "clean"
    /\ df' = CleanStrings(df)
    /\ pc' = "dropna"
    /\ UNCHANGED << uploaded, sheets, sheet, df_raw, ui, exc, lastCall >>
    /\ UNCHANGED pairVars

\* df = df.dropna(how="all").reset_index(drop=True)
DropEmpty ==
    /\ pc = "dropna"
    /\ df' = DropEmptyRows(df)
    /\ pc' = "date"
    /\ UNCHANGED << uploaded, sheets, sheet, df_raw, ui, exc, lastCall >>
    /\ UNCHANGED pairVars

\* df["Date"] = _parse_date(df["Date"])
ParseDate ==
    /\ pc = "date"
    /\ LET i == ColIdx(df, "Date")
       IN  /\ df' = SetCol(df, i, _parse_date(Col(df, i)), "datetime64")
           /\ lastCall' = Call("_parse_date", Col(df, i), Col(df, i))
    /\ pc' = "last4"
    /\ UNCHANGED << uploaded, sheets, sheet, df_raw, ui, exc >>
    /\ UNCHANGED pairVars

\* df["Store Name"] = _store_name_last4(df["Store Name"])
StoreNameLast4 ==
    /\ pc = "last4"
    /\ LET i == ColIdx(df, "Store Name")
       IN  /\ df' = SetCol(df, i, _store_name_last4(Col(df, i)), "object")
           /\ lastCall' = Call("_store_name_last4", Col(df, i), Col(df, i))
    /\ pc' = "coerce"
    /\ UNCHANGED << uploaded, sheets, sheet, df_raw, ui, exc >>
    /\ UNCHANGED pairVars

\* df = _coerce_numeric(df, [c for c in FINAL_COLS if c in NUMERIC_COLS])
\* The helper assigns df[c] on its argument, then returns it.
CoerceNumeric ==
    /\ pc = "coerce"
    /\ df' = _coerce_numeric(df, NumericColList)
    /\ lastCall' = Call("_coerce_numeric", df, _coerce_numeric(df, NumericColList))
    /\ pc' = "filter"
    /\ UNCHANGED << uploaded, sheets, sheet, df_raw, ui, exc >>
    /\ UNCHANGED pairVars

\* df = _filter_gross_sales_numeric_positive(df)
\* The helper assigns df["Gross Sales"] on its argument, then returns a selection.
FilterGrossSales ==
    /\ pc = "filter"
    /\ df' = _filter_gross_sales_numeric_positive(df)
    /\ lastCall' = Call("_filter_gross_sales_numeric_positive", df,
                        FilterEnforceNumeric(df))
    /\ pc' = "sweep"
    /\ UNCHANGED << uploaded, sheets, sheet, df_raw, ui, exc >>
    /\ UNCHANGED pairVars

\* df = df.dropna(how="all").reset_index(drop=True)
FinalSweep ==
    /\ pc = "sweep"
    /\ df' = DropEmptyRows(df)
    /\ pc' = "preview"
    /\ UNCHANGED << uploaded, sheets, sheet, df_raw, ui, exc, lastCall >>
    /\ UNCHANGED pairVars

Head200(t) == [t EXCEPT !.rows = SubSeq(t.rows, 1, Min(PreviewRows, NRows(t)))]

\* st.subheader("Output preview"); st.dataframe(df.head(200))
Preview ==
    /\ pc = "preview"
    /\ ui' = Append(ui, [kind |-> "dataframe", data |-> Head200(df)])
    /\ pc' = "csv"
    /\ UNCHANGED << uploaded, sheets, sheet, df_raw, df, exc, lastCall >>
    /\ UNCHANGED pairVars

\* csv_bytes = df.to_csv(index=False).encode("utf-8"); st.download_button(...)
DownloadCsv ==
    /\ pc = "csv"
    /\ ui' = Append(ui, [kind |-> "download", file |-> "normalized.csv", data |-> df])
    /\ pc' = "xlsx"
    /\ UNCHANGED << uploaded, sheets, sheet, df_raw, df, exc, lastCall >>
    /\ UNCHANGED pairVars

\* df.to_excel(w, index=False, sheet_name="normalized"); st.download_button(...)
DownloadXlsx ==
    /\ pc = "xlsx"
    /\ ui' = Append(ui, [kind |-> "download", file |-> "normalized.xlsx", data |-> df])
    /\ pc' = "done"
    /\ UNCHANGED << uploaded, sheets, sheet, df_raw, df, exc, lastCall >>
    /\ UNCHANGED pairVars

Next ==
    \/ Upload
    \/ OpenWorkbook
    \/ SelectSheet
    \/ ReadSheet
    \/ Flatten
    \/ Rename
    \/ Clean
    \/ DropEmpty
    \/ ParseDate
    \/ StoreNameLast4
    \/ CoerceNumeric
    \/ FilterGrossSales
    \/ FinalSweep
    \/ Preview
    \/ DownloadCsv
    \/ DownloadXlsx

Spec == Init /\ [][Next]_vars

\* ------------------------------------------------------------------------
\* Two sheets normalised side by side (lines 126-150 on each)
\* ------------------------------------------------------------------------
PairRead ==
    /\ pairPc = "off"
    /\ \E a \in PairTables, b \in PairTables :
         /\ srcA' = a
         /\ srcB' = b
    /\ pairPc' = "read"
    /\ UNCHANGED << outA, outB >>
    /\ UNCHANGED runVars

PairNormalize ==
    /\ pairPc = "read"
    /\ outA' = Normalize(srcA)
    /\ outB' = Normalize(srcB)
    /\ pairPc' = "done"
    /\ UNCHANGED << srcA, srcB >>
    /\ UNCHANGED runVars

PairNext ==
    \/ PairRead
    \/ PairNormalize

SpecPair == Init /\ [][PairNext]_vars

\* ------------------------------------------------------------------------
\* Properties
\* ------------------------------------------------------------------------
OutputReady == pc \in { "preview", "csv", "xlsx", "done" }

SheetRead == "rows" \in DOMAIN df_raw

\* What a source row's Gross Sales cell says: trimmed, commas removed, parsed
GrossValue(row) == ToNumericStr(ReplaceComma(Strip(AsStr(row[5]))))

IsPositiveGross(row) ==
    LET g == GrossValue(row)
    IN  \/ g.k = "int" /\ g.v > 0
        \/ g.k = "float" /\ g.m > 0

IsBlankCell(c) == Strip(AsStr(c)) \in BlankTexts

IsBlankRow(row) == \A i \in 1..16 : IsBlankCell(row[i])

IsNotBlankRow(row) == ~IsBlankRow(row)

KeptRows(raw) == SelectSeq(raw.rows, IsPositiveGross)

SameNumber(a, b) == AsFloat(a) = AsFloat(b)

UiData == { ui[i].data : i \in { j \in 1..Len(ui) : "data" \in DOMAIN ui[j] } }

HasError == \E i \in 1..Len(ui) : ui[i].kind = "error"

TextFields == { 1, 2, 12, 13 }

OtherNumericFields == { 6, 7, 8, 9, 10, 11, 14, 15, 16 }

PositiveNumber(c) ==
    \/ c.k = "int" /\ c.v > 0
    \/ c.k = "float" /\ c.m > 0

\* C1: whenever the pipeline has completed, every row of the output table
\* (and of every table shown or offered for download) has a Gross Sales that
\* is a number strictly greater than zero, never missing, zero or negative.
C1_Positivity ==
    OutputReady =>
        /\ \A r \in 1..NRows(df) : PositiveNumber(df.rows[r][5])
        /\ \A t \in UiData : \A r \in 1..NRows(t) : PositiveNumber(t.rows[r][5])

C1_Witness ==
    /\ pc = "done"
    /\ NRows(df) >= 1
    /\ \E r \in 1..NRows(df_raw) : ~IsPositiveGross(df_raw.rows[r])
    /\ Len(ui) = 3

\* C2: for two source tables with at least 16 columns each, both outputs carry
\* exactly the 16 FINAL_COLS names in order, the text fields of the output
\* hold the cleaned cells of the source columns at the same positions, and if
\* the two sources agree on the cells of their first 16 columns then the two
\* outputs are identical, whatever their header labels and further columns.
C2_ColumnContract ==
    pairPc = "done" =>
        /\ ~IsExc(outA) /\ ~IsExc(outB)
        /\ outA.columns = FINAL_COLS
        /\ outB.columns = FINAL_COLS
        /\ \A r \in 1..NRows(outA) : Len(outA.rows[r]) = 16
        /\ NRows(outA) = Len(KeptRows(srcA))
        /\ \A r \in 1..NRows(outA) : \A i \in TextFields :
              outA.rows[r][i] = CleanCell(KeptRows(srcA)[r][i])
        /\ (Narrow(srcA.rows, 16) = Narrow(srcB.rows, 16) => outA = outB)

C2_Witness ==
    /\ pairPc = "done"
    /\ Narrow(srcA.rows, 16) = Narrow(srcB.rows, 16)
    /\ NCols(srcA) = 16
    /\ NCols(srcB) = 17
    /\ srcA.columns[1] # srcB.columns[1]
    /\ NRows(outA) >= 1
    /\ outA = outB

\* C3: the output holds exactly the source rows whose Gross Sales cell,
\* trimmed and with commas removed, parses to a number greater than zero,
\* each once and in source order, with that number as Gross Sales; rows with
\* "0", a negative, a blank or unparseable text are dropped and "1,200.50"
\* is kept as 1200.5.
C3_FilterExactness ==
    OutputReady =>
        /\ NRows(df) = Len(KeptRows(df_raw))
        /\ \A r \in 1..NRows(df) :
              /\ SameNumber(df.rows[r][5], GrossValue(KeptRows(df_raw)[r]))
              /\ \A i \in TextFields :
                    df.rows[r][i] = CleanCell(KeptRows(df_raw)[r][i])

C3_Witness ==
    /\ pc = "done"
    /\ NRows(df_raw) = 2
    /\ df_raw.rows[1][5] \in { Txt0, TxtAbc }
    /\ df_raw.rows[2][5] = Txt1200
    /\ NRows(df) = 1
    /\ df.rows[1][5] = [k |-> "float", m |-> 12005, e |-> 1]

\* The Store Name the truncation law asks for, given the cell after cleanup
TruncationOf(c) == IF c.k = "str" THEN [k |-> "str", s |-> StrLast4(c.s)] ELSE c

\* C4: in every output row, Store Name is the last 4 characters of the Store
\* Name text as it stood after string cleanup (the whole text if shorter),
\* and a Store Name that was missing before truncation is still missing.
C4_TruncationLaw ==
    OutputReady =>
        \A r \in 1..NRows(df) :
            r <= Len(KeptRows(df_raw)) =>
                df.rows[r][3] = TruncationOf(CleanCell(KeptRows(df_raw)[r][3]))

C6_FatalErrorsHalt ==
    /\ [](HasError =>
            /\ pc = "stopped"
            /\ Len(ui) = 1
            /\ ui[1].cause \in OpenErrors \cup ReadErrors
            /\ df = Unset
            /\ df_raw = Unset
            /\ lastCall = Unset
            /\ (ui[1].text = "Failed to open Excel" => sheets = Unset))
    /\ [](uploaded = "None" =>
            /\ pc = "stopped"
            /\ sheets = Unset
            /\ df_raw = Unset
            /\ df = Unset
            /\ ui = << [kind |-> "info"] >>)
    /\ [][pc # "stopped"]_vars

C6_Witness ==
    /\ pc = "stopped"
    /\ HasError
    /\ ui[1].text = "Failed to read sheet with header rows"
    /\ sheet = "Data"

\* C7: from the empty-row drop onwards, and so in the output, the table has
\* no row whose fields are all missing, and it has no more rows than the
\* source has rows that are not entirely blank / whitespace / "nan" / "None".
C7_EmptyRowElimination ==
    pc \in { "date", "last4", "coerce", "filter", "sweep",
             "preview", "csv", "xlsx", "done" } =>
        /\ \A r \in 1..NRows(df) : \E i \in 1..16 : ~IsNA(df.rows[r][i])
        /\ NRows(df) <= Len(SelectSeq(df_raw.rows, IsNotBlankRow))

C7_Witness ==
    /\ pc = "done"
    /\ NRows(df_raw) = 2
    /\ IsBlankRow(df_raw.rows[1])
    /\ df_raw.rows[1][2] = TxtSpaces
    /\ NRows(df) = 1

\* C8: a Date or other numeric cell that cannot be parsed becomes missing in
\* that cell and nothing more: a sheet with 16 columns never ends in an
\* exception, and every source row with a positive Gross Sales is in the
\* output, with a missing Date / numeric cell exactly where the text does not
\* parse.
C8_PerCellRecoverable ==
    /\ (SheetRead /\ NCols(df_raw) >= 16 => pc # "crashed")
    /\ OutputReady =>
          /\ NRows(df) = Len(KeptRows(df_raw))
          /\ \A r \in 1..NRows(df) :
                /\ df.rows[r][4] = ToDatetime(CleanCell(KeptRows(df_raw)[r][4]))
                /\ \A i \in OtherNumericFields :
                      SameNumber(df.rows[r][i],
                                 ToNumericStr(ReplaceComma(Strip(AsStr(KeptRows(df_raw)[r][i])))))

C8_Witness ==
    /\ pc = "done"
    /\ NRows(df) >= 1
    /\ df.rows[1][4] = NaT
    /\ df.rows[1][6] = NaN
    /\ df_raw.rows[1][4] = TxtBadDate
    /\ df_raw.rows[1][6] = TxtX

\* C9: coercing the already coerced table again gives the identical table
\* (numbers unchanged, missing still missing), and the Gross Sales assignment
\* inside the filter leaves the table it was given as step 7 produced it.
C9_CoercionIdempotent ==
    /\ (pc = "filter" => _coerce_numeric(df, NumericColList) = df)
    /\ ("fn" \in DOMAIN lastCall /\ lastCall.fn = "_filter_gross_sales_numeric_positive"
          => lastCall.after = lastCall.before)

C9_Witness ==
    /\ pc = "sweep"
    /\ NRows(lastCall.before) = 2
    /\ lastCall.before.rows[1][5] = NaN
    /\ lastCall.before.rows[2][5] = [k |-> "float", m |-> 12005, e |-> 1]
    /\ lastCall.before.dtypes[6] = "int64"

\* C10: every helper call leaves the object passed to it as it was before
\* the call.
C10_StagesLeaveInputUnchanged ==
    "fn" \in DOMAIN lastCall => lastCall.after = lastCall.before

====
